---- MODULE Spec2Model ----
(***************************************************************************)
(* Request lifecycle of the cold-email generator front end:                *)
(*   - the useEmailGeneration hook (form state, request, progress, toasts) *)
(*   - the CanvasFlow component's staged reveal (showAgents / showFinal)   *)
(* Time is kept as the remaining milliseconds of every armed timer; the    *)
(* event loop runs one callback to completion per step. A step that is an  *)
(* event handler ends with the React commit that re-runs CanvasFlow's      *)
(* effects; the state a promise continuation or a timer callback sets is   *)
(* queued and committed by a later step of its own (render).               *)
(***************************************************************************)
EXTENDS Integers, Sequences, FiniteSets, TLC

\* ------------------------------------------------------------------ bounds
\* Number of handleGenerate calls that pass validation in one behaviour.
MaxReq == 2
\* The network settles (response, error) only during the first
\* MaxSettleTicks progress ticks of a request, during the same number of
\* ticks after the estimated processing time, or not at all (timeout).
MaxSettleTicks == 1

\* ------------------------------------------------------- program constants
REQUEST_TIMEOUT == 120000
PROGRESS_UPDATE_INTERVAL == 500
ESTIMATED_PROCESSING_TIME == 45000
PREPARE == 5
SEND == 10
SEND_COMPLETE == 20
PROCESSING_START == 20
PROCESSING_END == 80
RESPONSE_RECEIVED == 85
PARSING == 90
PRE_COMPLETE == 95
COMPLETE == 100
COMPLETE_DELAY == 300
AGENTS_DELAY == 300
FINAL_DELAY == 600
MAX_FILE_SIZE == 20 * 1024 * 1024

\* A timer handle that is null, cleared or already fired.
NoTimer == -1

\* progress is stored in units of 1/Scale percent, so that the interpolated
\* value PROCESSING_START + elapsed / ESTIMATED_PROCESSING_TIME * (END - START)
\* is an integer for every elapsed time in whole milliseconds.
Scale == ESTIMATED_PROCESSING_TIME \div (PROCESSING_END - PROCESSING_START)

Pct(p) == p * Scale

Min(a, b) == IF a <= b THEN a ELSE b

\* ======================================================= textProcessing.ts
\* A string is the sequence of its characters. The grave accent U+0060 cannot
\* be written inside a string of this notation, so it is written by its code.
BACKTICK == "U+0060"
NL == "\n"
QUOTE == "\""

\* The characters of these texts that the class \s, trim() and the grammar
\* of JSON treat as white space.
WhiteSpace == {" ", NL}

Least(S) == CHOOSE x \in S : \A y \in S : x <= y

Greatest(S) == CHOOSE x \in S : \A y \in S : x >= y

\* String.prototype.toLowerCase on one character (the letters of the texts).
toLowerCase(c) ==
    CASE c = "T" -> "t" [] c = "H" -> "h" [] c = "I" -> "i" [] c = "N" -> "n"
      [] c = "K" -> "k" [] c = "J" -> "j" [] c = "S" -> "s" [] c = "O" -> "o"
      [] OTHER -> c

\* A literal pattern (given in lower case) matches at index p under the i flag.
MatchAt(s, p, pat) ==
    /\ p >= 1
    /\ p + Len(pat) - 1 <= Len(s)
    /\ \A k \in 1 .. Len(pat) : toLowerCase(s[p + k - 1]) = pat[k]

\* A literal matches at index p, case respected.
LiteralAt(s, p, lit) ==
    /\ p + Len(lit) - 1 <= Len(s)
    /\ \A k \in 1 .. Len(lit) : s[p + k - 1] = lit[k]

\* String.prototype.trim
trim(s) ==
    LET keep == {k \in 1 .. Len(s) : s[k] \notin WhiteSpace}
    IN  IF keep = {} THEN <<>> ELSE SubSeq(s, Least(keep), Greatest(keep))

OPEN_TAG == <<"<", "t", "h", "i", "n", "k", ">">>
CLOSE_TAG == <<"<", "/", "t", "h", "i", "n", "k", ">">>

\* text.replace(/<think>[\s\S]*?<\/think>/gi, '') on the part of s from index
\* i on: the leftmost opening tag that a closing tag follows, up to the
\* nearest such closing tag, is dropped, and the search resumes behind it.
RECURSIVE replaceThink(_, _)
replaceThink(s, i) ==
    LET closes(p) == {q \in p + Len(OPEN_TAG) .. Len(s) :
                         MatchAt(s, q, CLOSE_TAG)}
        opens == {p \in i .. Len(s) :
                     MatchAt(s, p, OPEN_TAG) /\ closes(p) # {}}
    IN  IF opens = {} THEN SubSeq(s, i, Len(s))
        ELSE LET p == Least(opens)
                 q == Least(closes(p))
             IN  SubSeq(s, i, p - 1) \o replaceThink(s, q + Len(CLOSE_TAG))

\* Variant: the g flag is missing, only the first span is removed.
removeThinkTagsFirstOnly(text) ==
    LET closes(p) == {q \in p + Len(OPEN_TAG) .. Len(text) :
                         MatchAt(text, q, CLOSE_TAG)}
        opens == {p \in 1 .. Len(text) :
                     MatchAt(text, p, OPEN_TAG) /\ closes(p) # {}}
    IN  IF opens = {} THEN trim(text)
        ELSE LET p == Least(opens)
                 q == Least(closes(p))
             IN  trim(SubSeq(text, 1, p - 1)
                        \o SubSeq(text, q + Len(CLOSE_TAG), Len(text)))

removeThinkTags(text) == trim(replaceThink(text, 1))

FENCE == <<BACKTICK, BACKTICK, BACKTICK>>
FENCE_JSON == <<BACKTICK, BACKTICK, BACKTICK, "j", "s", "o", "n">>

\* .replace(/^```json\s*\n?/i, ''): the greedy \s* takes every white space
\* character that follows the opener, the line feed included.
stripOpeningFence(s) ==
    IF MatchAt(s, 1, FENCE_JSON)
    THEN LET rest == {k \in Len(FENCE_JSON) + 1 .. Len(s) :
                         s[k] \notin WhiteSpace}
         IN  IF rest = {} THEN <<>> ELSE SubSeq(s, Least(rest), Len(s))
    ELSE s

\* /\n?```\s*$/ matches at index p: an optional line feed, the fence, and
\* nothing but white space up to the end of the text.
closingFenceAt(s, p) ==
    \/ /\ MatchAt(s, p, FENCE)
       /\ \A k \in p + Len(FENCE) .. Len(s) : s[k] \in WhiteSpace
    \/ /\ s[p] = NL
       /\ MatchAt(s, p + 1, FENCE)
       /\ \A k \in p + 1 + Len(FENCE) .. Len(s) : s[k] \in WhiteSpace

\* .replace(/\n?```\s*$/i, ''): the leftmost match is dropped.
stripClosingFence(s) ==
    LET at == {p \in 1 .. Len(s) : closingFenceAt(s, p)}
    IN  IF at = {} THEN s ELSE SubSeq(s, 1, Least(at) - 1)

stripMarkdownCodeBlocks(text) ==
    trim(stripClosingFence(stripOpeningFence(text)))

\* ---------------------------------------------------------- JavaScript values
undefined == [kind |-> "undefined", chars |-> <<>>, members |-> <<>>]

JSNull == [kind |-> "null", chars |-> <<>>, members |-> <<>>]

JSBoolean(b) ==
    [kind |-> IF b THEN "true" ELSE "false", chars |-> <<>>, members |-> <<>>]

JSString(c) == [kind |-> "string", chars |-> c, members |-> <<>>]

\* An object: its members in source order, each [key |-> chars, val |-> value].
JSObject(m) == [kind |-> "object", chars |-> <<>>, members |-> m]

\* value[name]: the last member of that key of an object, undefined on an
\* object without it and on a string or boolean. Not defined on null.
Get(value, name) ==
    LET at == {k \in 1 .. Len(value.members) : value.members[k].key = name}
    IN  IF value.kind # "object" \/ at = {} THEN undefined
        ELSE value.members[Greatest(at)].val

\* ------------------------------------------------------------------ JSON.parse
\* The grammar of JSON over the characters of these texts: white space, the
\* literals null, true and false, strings without escapes, and objects.
SyntaxError == [ok |-> FALSE, val |-> undefined, next |-> 0]

Parsed(v, n) == [ok |-> TRUE, val |-> v, next |-> n]

\* The first index from i on that holds no white space (Len(s) + 1 if none).
skipWs(s, i) ==
    LET at == {k \in i .. Len(s) : s[k] \notin WhiteSpace}
    IN  IF at = {} THEN Len(s) + 1 ELSE Least(at)

\* A string literal that opens at index i: it ends at the next quote and
\* holds no control character.
parseString(s, i) ==
    LET ends == {q \in i + 1 .. Len(s) : s[q] = QUOTE}
    IN  IF ends = {} THEN SyntaxError
        ELSE LET q == Least(ends)
             IN  IF \E k \in i + 1 .. q - 1 : s[k] = NL THEN SyntaxError
                 ELSE Parsed(JSString(SubSeq(s, i + 1, q - 1)), q + 1)

LIT_NULL == <<"n", "u", "l", "l">>
LIT_TRUE == <<"t", "r", "u", "e">>
LIT_FALSE == <<"f", "a", "l", "s", "e">>

RECURSIVE parseValue(_, _)
RECURSIVE parseMembers(_, _, _)
\* A value that starts at or behind index i.
parseValue(s, i) ==
    LET j == skipWs(s, i)
    IN  IF j > Len(s) THEN SyntaxError
        ELSE IF s[j] = QUOTE THEN parseString(s, j)
        ELSE IF s[j] = "{"
             THEN LET k == skipWs(s, j + 1)
                  IN  IF k <= Len(s) /\ s[k] = "}"
                      THEN Parsed(JSObject(<<>>), k + 1)
                      ELSE parseMembers(s, k, <<>>)
        ELSE IF LiteralAt(s, j, LIT_NULL) THEN Parsed(JSNull, j + Len(LIT_NULL))
        ELSE IF LiteralAt(s, j, LIT_TRUE)
             THEN Parsed(JSBoolean(TRUE), j + Len(LIT_TRUE))
        ELSE IF LiteralAt(s, j, LIT_FALSE)
             THEN Parsed(JSBoolean(FALSE), j + Len(LIT_FALSE))
        ELSE SyntaxError

\* The members of an object from index i (white space skipped) to its brace.
parseMembers(s, i, acc) ==
    IF i > Len(s) \/ s[i] # QUOTE THEN SyntaxError
    ELSE LET key == parseString(s, i)
         IN  IF ~key.ok THEN SyntaxError
             ELSE LET c == skipWs(s, key.next)
                  IN  IF c > Len(s) \/ s[c] # ":" THEN SyntaxError
                      ELSE LET v == parseValue(s, c + 1)
                           IN  IF ~v.ok THEN SyntaxError
                               ELSE LET d == skipWs(s, v.next)
                                        all == Append(acc, [key |-> key.val.chars,
                                                            val |-> v.val])
                                    IN  IF d > Len(s) THEN SyntaxError
                                        ELSE IF s[d] = "}"
                                             THEN Parsed(JSObject(all), d + 1)
                                        ELSE IF s[d] = ","
                                             THEN parseMembers(s, skipWs(s, d + 1), all)
                                        ELSE SyntaxError

\* JSON.parse(text): one value, white space around it, nothing else.
JSONparse(text) ==
    LET v == parseValue(text, 1)
    IN  IF v.ok /\ skipWs(text, v.next) > Len(text)
        THEN [threw |-> FALSE, value |-> v.val]
        ELSE [threw |-> TRUE, value |-> undefined]

FINAL_EMAIL == <<"f", "i", "n", "a", "l", "_", "e", "m", "a", "i", "l">>
REASONING == <<"r", "e", "a", "s", "o", "n", "i", "n", "g">>

\* The try block of parseJsonWrapper (lines 35-41): JSON.parse throws a
\* SyntaxError, reading a property of null throws a TypeError.
tryParse(cleanContent) ==
    LET decoded == JSONparse(cleanContent)
    IN  IF decoded.threw THEN [threw |-> "SyntaxError", ret |-> undefined]
        ELSE IF decoded.value.kind = "null"
             THEN [threw |-> "TypeError", ret |-> undefined]
        ELSE [threw |-> "none",
              ret |-> [email |-> Get(decoded.value, FINAL_EMAIL),
                       reasoning |-> Get(decoded.value, REASONING),
                       parsed |-> TRUE]]

\* Variant: only the SyntaxError of JSON.parse is caught.
parseJsonWrapperSyntaxOnly(content) ==
    LET cleanContent == stripMarkdownCodeBlocks(content)
        try == tryParse(cleanContent)
    IN  IF try.threw = "TypeError"
        THEN [raised |-> TRUE, value |-> undefined]
        ELSE IF try.threw # "none"
        THEN [raised |-> FALSE,
              value |-> [email |-> JSString(cleanContent),
                         reasoning |-> undefined, parsed |-> FALSE]]
        ELSE [raised |-> FALSE, value |-> try.ret]

\* Variant: the properties read are email and reasoning.
parseJsonWrapperWrongKey(content) ==
    LET cleanContent == stripMarkdownCodeBlocks(content)
        try == tryParse(cleanContent)
    IN  IF try.threw # "none"
        THEN [raised |-> FALSE,
              value |-> [email |-> JSString(cleanContent),
                         reasoning |-> undefined, parsed |-> FALSE]]
        ELSE [raised |-> FALSE,
              value |-> [try.ret EXCEPT !.email = undefined]]

\* `catch { ... }` catches whatever the try block threw.
parseJsonWrapper(content) ==
    LET cleanContent == stripMarkdownCodeBlocks(content)
        try == tryParse(cleanContent)
    IN  IF try.threw # "none"
        THEN [raised |-> FALSE,
              value |-> [email |-> JSString(cleanContent),
                         reasoning |-> undefined, parsed |-> FALSE]]
        ELSE [raised |-> FALSE, value |-> try.ret]

\* ------------------------------------------------------------ input domains
PDF == "application/pdf"
DOCX == "application/vnd.openxmlformats-officedocument.wordprocessingml.document"
validTypes == {PDF, DOCX}
FileTypes == validTypes \cup {"text/plain"}
FileSizes == {MAX_FILE_SIZE, MAX_FILE_SIZE + 1}
NoFile == [type |-> "none", size |-> 0]
Files == [type : FileTypes, size : FileSizes]
Urls == {"", "https://jobs.lever.co/company/job-id"}
Statuses == {"complete", "processing", "failed"}
NoResult == [request_id |-> 0, status |-> "none"]
Reqs == 1 .. MaxReq

\* ------------------------------------------------------------------ the texts
\* A text is made of at most MaxPieces pieces.
MaxPieces == 3
MaxTagPieces == 4
\* Number of copy resets (setTimeout of copyToClipboard) pending at a time.
MaxResets == 2

OPEN_TAG_UPPER == <<"<", "T", "H", "I", "N", "K", ">">>
TAG_HEAD == <<"<", "t", "h", "i">>
TAG_TAIL == <<"n", "k", ">">>
EMPTY_SPAN == OPEN_TAG \o CLOSE_TAG
FENCE_OPEN == <<BACKTICK, BACKTICK, BACKTICK, "j", "s", "o", "n", NL>>
FENCE_CLOSE == <<NL, BACKTICK, BACKTICK, BACKTICK>>
OBJECT_BOTH ==
    <<"{", QUOTE, "f", "i", "n", "a", "l", "_", "e", "m", "a", "i", "l",
      QUOTE, ":", QUOTE, "H", "i", QUOTE, ",", QUOTE, "r", "e", "a", "s",
      "o", "n", "i", "n", "g", QUOTE, ":", QUOTE, "w", "h", "y", QUOTE, "}">>
OBJECT_REASONING ==
    <<"{", QUOTE, "r", "e", "a", "s", "o", "n", "i", "n", "g", QUOTE, ":",
      QUOTE, "w", "h", "y", QUOTE, "}">>
STRING_HI == <<QUOTE, "H", "i", QUOTE>>
PLAIN_HI == <<"H", "i">>

\* Pieces of model output around reasoning markup (AgentCard's draft.draft).
ThinkPieces ==
    {OPEN_TAG, CLOSE_TAG, OPEN_TAG_UPPER, TAG_HEAD, TAG_TAIL, EMPTY_SPAN,
     <<"a">>, <<" ">>}

\* Pieces of an aggregation.final_email text.
JsonPieces ==
    {FENCE_OPEN, FENCE_CLOSE, FENCE, OBJECT_BOTH, OBJECT_REASONING, LIT_NULL,
     STRING_HI, PLAIN_HI, <<" ">>, <<NL>>}

RECURSIVE Concat(_)
Concat(pieces) ==
    IF pieces = <<>> THEN <<>> ELSE Head(pieces) \o Concat(Tail(pieces))

TextsOf(P, max) == {Concat(f) : f \in UNION {[1 .. n -> P] : n \in 0 .. max}}

\* The examples of the two transforms.
THINK_EXAMPLE ==
    <<"a", "<", "t", "h", "i", "n", "k", ">", "x", "<", "/", "t", "h", "i",
      "n", "k", ">", "b", "<", "t", "h", "i", "n", "k", ">", "y", "<", "/",
      "t", "h", "i", "n", "k", ">", "c">>
FENCED_EXAMPLE ==
    <<BACKTICK, BACKTICK, BACKTICK, "j", "s", "o", "n", NL, "{", QUOTE, "f",
      "i", "n", "a", "l", "_", "e", "m", "a", "i", "l", QUOTE, ":", QUOTE,
      "H", "i", QUOTE, ",", QUOTE, "r", "e", "a", "s", "o", "n", "i", "n",
      "g", QUOTE, ":", QUOTE, "w", "h", "y", QUOTE, "}", NL, BACKTICK,
      BACKTICK, BACKTICK>>
PLAIN_EXAMPLE ==
    <<"p", "l", "a", "i", "n", " ", "t", "e", "x", "t", ",", " ", "n", "o",
      " ", "f", "e", "n", "c", "e", "s">>

Texts ==
    TextsOf(ThinkPieces, MaxTagPieces) \cup TextsOf(JsonPieces, MaxPieces)
        \cup {THINK_EXAMPLE, FENCED_EXAMPLE, PLAIN_EXAMPLE}

\* What the last call returned: the function, whether it threw, its value.
NotCalled == [of |-> "none", raised |-> FALSE, value |-> undefined]

\* A clipboard nothing has been written to reads as the empty text.
EmptyClipboard == JSString(<<>>)

\* The texts a draft.draft is drawn from.
DRAFT_EXAMPLE ==
    <<"<", "t", "h", "i", "n", "k", ">", "x", "<", "/", "t", "h", "i", "n",
      "k", ">", " ", "D", "e", "a", "r", " ", "t", "e", "a", "m">>
Drafts == {DRAFT_EXAMPLE, PLAIN_EXAMPLE}

\* The texts an aggregation.final_email is drawn from.
CardTexts == TextsOf(JsonPieces, MaxPieces) \cup {FENCED_EXAMPLE, PLAIN_EXAMPLE}

VARIABLES
    jobUrl,        \* useState("")
    resume,        \* useState<File | null>(null)
    isGenerating,  \* useState(false)
    result,        \* useState<EmailGenerationResponse | null>(null)
    progress,      \* useState(0), in units of 1/Scale percent
    reqs,          \* one closure of handleGenerate per validated call
    nReq,          \* number of validated handleGenerate calls so far
    canvas,        \* CanvasFlow: mounted, showAgents, showFinal, its timers
    committed,     \* isGenerating and result as React last rendered them
    writes,        \* the setProgress calls of the last step, in order
    emitted,       \* the toast of the last step ("none" when it made none)
    content,       \* the text handed to the text transforms
    returned,      \* what the last call of a text transform returned
    clipboard,     \* the text last given to navigator.clipboard.writeText
    copiedFinal,   \* useState(false) of useCopyToClipboard in CanvasFlow
    resets,        \* pending setTimeout(() => setCopied(false), RESET_DELAY)
    draft,         \* draft.draft of an AgentCard whose draft is complete
    copied,        \* useState(false) of useCopyToClipboard in that AgentCard
    draftResets    \* its pending setTimeout(() => setCopied(false), ...)

vars == <<jobUrl, resume, isGenerating, result, progress, reqs, nReq,
          canvas, committed, writes, emitted, content, returned, clipboard,
          copiedFinal, resets, draft, copied, draftResets>>

textVars == <<content, returned, clipboard, copiedFinal, resets, draft,
              copied, draftResets>>

hookState == <<jobUrl, resume, isGenerating, result, progress>>

\* ------------------------------------------------------------ request closure
\* pc: "unused"   the call has not been made
\*     "fetching" suspended at `await responsePromise`
\*     "decoding" suspended at `await response.json()`
\*     "done"     the async function has returned
UnusedReq ==
    [pc |-> "unused", elapsed |-> 0, timeoutId |-> NoTimer,
     progressInterval |-> NoTimer, completeTimer |-> NoTimer,
     reason |-> "none", failNotices |-> 0, successNotices |-> 0]

\* ------------------------------------------------------------------ CanvasFlow
Unmounted ==
    [mounted |-> FALSE, showAgents |-> FALSE, showFinal |-> FALSE,
     agentsTimer |-> NoTimer, finalTimer |-> NoTimer]

\* Index renders CanvasFlow only when (isGenerating || result).
Rendered(g, r) == g \/ r # NoResult

\* useEffect(..., [isGenerating]): cleanup of the previous run, then the run.
AgentsEffect(c, g0, g1, fresh) ==
    IF ~fresh /\ g0 = g1 THEN c
    ELSE LET cleaned == [c EXCEPT !.agentsTimer = NoTimer]
         IN  IF g1
             THEN [cleaned EXCEPT !.showAgents = FALSE, !.showFinal = FALSE,
                                  !.agentsTimer = AGENTS_DELAY]
             ELSE cleaned

\* Variant: the effect on [result] tests nothing before arming its timer.
FinalEffectUnguarded(c, r0, r1, fresh) ==
    IF ~fresh /\ r0 = r1 THEN c
    ELSE [c EXCEPT !.finalTimer = FINAL_DELAY]

\* Variant: the effect on [result] returns no cleanup.
FinalEffectNoCleanup(c, r0, r1, fresh) ==
    IF ~fresh /\ r0 = r1 THEN c
    ELSE IF r1 # NoResult /\ r1.status = "complete"
         THEN [c EXCEPT !.finalTimer = FINAL_DELAY]
         ELSE c

\* useEffect(..., [result]): cleanup of the previous run, then the run.
FinalEffect(c, r0, r1, fresh) ==
    IF ~fresh /\ r0 = r1 THEN c
    ELSE LET cleaned == [c EXCEPT !.finalTimer = NoTimer]
         IN  IF r1 # NoResult /\ r1.status = "complete"
             THEN [cleaned EXCEPT !.finalTimer = FINAL_DELAY]
             ELSE cleaned

\* The state of the first render: useState(false) and useState(null).
NothingRendered == [isGenerating |-> FALSE, result |-> NoResult]

\* The commit of a render that takes the props from (g0, r0) to (g1, r1).
Commit(c, g0, r0, g1, r1) ==
    IF ~Rendered(g1, r1) THEN Unmounted
    ELSE LET fresh == ~c.mounted
             base  == IF fresh THEN [Unmounted EXCEPT !.mounted = TRUE] ELSE c
         IN  FinalEffect(AgentsEffect(base, g0, g1, fresh), r0, r1, fresh)

Init ==
    /\ jobUrl = ""
    /\ resume = NoFile
    /\ isGenerating = FALSE
    /\ result = NoResult
    /\ progress = 0
    /\ reqs = [r \in Reqs |-> UnusedReq]
    /\ nReq = 0
    /\ canvas = Unmounted
    /\ committed = NothingRendered
    /\ writes = <<>>
    /\ emitted = "none"
    /\ content = <<>>
    /\ returned = NotCalled
    /\ clipboard = EmptyClipboard
    /\ copiedFinal = FALSE
    /\ resets = 0
    /\ draft = <<>>
    /\ copied = FALSE
    /\ draftResets = 0

\* ------------------------------------------------------------------ user input
setJobUrl(v) ==
    /\ jobUrl' = v
    /\ writes' = <<>>
    /\ emitted' = "none"
    /\ UNCHANGED <<resume, isGenerating, result, progress, reqs, nReq, canvas, committed, textVars>>

\* Variant: the size branch shows its toast and falls through to setResume.
handleFileChangeNoReturn(file) ==
    /\ writes' = <<>>
    /\ IF file = NoFile
       THEN /\ emitted' = "none"
            /\ UNCHANGED resume
       ELSE IF file.type \notin validTypes
       THEN /\ emitted' = "Invalid file type"
            /\ UNCHANGED resume
       ELSE /\ emitted' = IF file.size > MAX_FILE_SIZE
                            THEN "File too large" ELSE "none"
            /\ resume' = file
    /\ UNCHANGED <<jobUrl, isGenerating, result, progress, reqs, nReq, canvas, committed,
                 textVars>>

\* Variant: the size test is `>=`, so a file of exactly the cap is refused.
handleFileChangeStrict(file) ==
    /\ writes' = <<>>
    /\ IF file = NoFile
       THEN /\ emitted' = "none"
            /\ UNCHANGED resume
       ELSE IF file.type \notin validTypes
       THEN /\ emitted' = "Invalid file type"
            /\ UNCHANGED resume
       ELSE IF file.size >= MAX_FILE_SIZE
       THEN /\ emitted' = "File too large"
            /\ UNCHANGED resume
       ELSE /\ emitted' = "none"
            /\ resume' = file
    /\ UNCHANGED <<jobUrl, isGenerating, result, progress, reqs, nReq, canvas, committed,
                 textVars>>

handleFileChange(file) ==
    /\ writes' = <<>>
    /\ IF file = NoFile
       THEN /\ emitted' = "none"
            /\ UNCHANGED resume
       ELSE IF file.type \notin validTypes
       THEN /\ emitted' = "Invalid file type"
            /\ UNCHANGED resume
       ELSE IF file.size > MAX_FILE_SIZE
       THEN /\ emitted' = "File too large"
            /\ UNCHANGED resume
       ELSE /\ emitted' = "none"
            /\ resume' = file
    /\ UNCHANGED <<jobUrl, isGenerating, result, progress, reqs, nReq, canvas, committed,
                 textVars>>

\* The render that ends the click takes the updates of the click only: an
\* isGenerating a continuation has queued stays queued.
handleClear ==
    /\ jobUrl' = ""
    /\ resume' = NoFile
    /\ result' = NoResult
    /\ progress' = 0
    /\ writes' = <<0>>
    /\ emitted' = "none"
    /\ canvas' = Commit(canvas, committed.isGenerating, committed.result,
                        committed.isGenerating, NoResult)
    /\ committed' = [committed EXCEPT !.result = NoResult]
    /\ UNCHANGED <<isGenerating, reqs, nReq, textVars>>

\* ------------------------------------------------------------ progress clock
\* The interval callback of startProgressTracking, `elapsed` = Date.now() -
\* startTime in milliseconds; the result is in units of 1/Scale percent.
calculatedProgressNoClamp(elapsed) == Pct(PROCESSING_START) + elapsed

calculatedProgress(elapsed) ==
    Min(Pct(PROCESSING_END), Pct(PROCESSING_START) + elapsed)

\* startProgressTracking arms the interval: first tick one period from now.
startProgressTracking == PROGRESS_UPDATE_INTERVAL

\* The instants (in ms since the call was opened) at which the backend may
\* answer or the transport may fail.
NetworkMaySettle(e) ==
    \/ e <= MaxSettleTicks * PROGRESS_UPDATE_INTERVAL
    \/ /\ e >= ESTIMATED_PROCESSING_TIME
       /\ e <= ESTIMATED_PROCESSING_TIME + MaxSettleTicks * PROGRESS_UPDATE_INTERVAL

Last(s) == s[Len(s)]

\* ------------------------------------------------------------ handleGenerate
\* Variant: setResult(null) is missing at the start of a request.
submitWithKeepsResult(flag) ==
    /\ nReq < MaxReq
    /\ nReq' = nReq + 1
    /\ isGenerating' = flag
    /\ writes' = <<0, Pct(PREPARE), Pct(SEND), Pct(SEND_COMPLETE)>>
    /\ progress' = Pct(SEND_COMPLETE)
    /\ reqs' = [reqs EXCEPT ![nReq + 1] =
                  [UnusedReq EXCEPT !.pc = "fetching",
                                    !.timeoutId = REQUEST_TIMEOUT,
                                    !.progressInterval = startProgressTracking]]
    /\ emitted' = "none"
    /\ canvas' = Commit(canvas, committed.isGenerating, committed.result,
                        flag, result)
    /\ committed' = [isGenerating |-> flag, result |-> result]
    /\ UNCHANGED <<jobUrl, resume, result, textVars>>

\* What handleGenerate does once validation has passed, with the flag it
\* raises (isGenerating) as the parameter.
submitWith(flag) ==
    /\ nReq < MaxReq
    /\ nReq' = nReq + 1
    /\ isGenerating' = flag
    /\ result' = NoResult
    /\ writes' = <<0, Pct(PREPARE), Pct(SEND), Pct(SEND_COMPLETE)>>
    /\ progress' = Pct(SEND_COMPLETE)
    /\ reqs' = [reqs EXCEPT ![nReq + 1] =
                  [UnusedReq EXCEPT !.pc = "fetching",
                                    !.timeoutId = REQUEST_TIMEOUT,
                                    !.progressInterval = startProgressTracking]]
    /\ emitted' = "none"
    /\ canvas' = Commit(canvas, committed.isGenerating, committed.result,
                        flag, NoResult)
    /\ committed' = [isGenerating |-> flag, result |-> NoResult]
    /\ UNCHANGED <<jobUrl, resume, textVars>>

missingToast ==
    /\ emitted' = "Missing information"
    /\ writes' = <<>>
    /\ UNCHANGED <<jobUrl, resume, isGenerating, result, progress, reqs,
                   nReq, canvas, committed, textVars>>

\* Variant: setIsGenerating(true) is missing.
handleGenerateNoFlag ==
    IF jobUrl = "" \/ resume = NoFile THEN missingToast ELSE submitWith(isGenerating)

\* Variant: the validation tests the url only.
handleGenerateUrlOnly ==
    IF jobUrl = "" THEN missingToast ELSE submitWith(TRUE)

\* From the call to the first await (lines 98-140).
handleGenerate ==
    IF jobUrl = "" \/ resume = NoFile THEN missingToast ELSE submitWith(TRUE)

\* Variant: the catch block does not call setProgress(0).
catchAndFinallyNoReset(r, before, timeoutId, why) ==
    /\ reqs' = [reqs EXCEPT ![r] =
                  [@ EXCEPT !.pc = "done",
                            !.timeoutId = timeoutId,
                            !.progressInterval = NoTimer,
                            !.elapsed = 0,
                            !.reason = why,
                            !.failNotices = @ + 1]]
    /\ writes' = before
    /\ progress' = IF before = <<>> THEN progress ELSE Last(before)
    /\ emitted' = "Generation failed"
    /\ isGenerating' = FALSE
    /\ UNCHANGED <<jobUrl, resume, result, nReq, canvas, committed, textVars>>

\* Variant: the catch block also drops the attached document.
catchAndFinallyDropsResume(r, before, timeoutId, why) ==
    /\ reqs' = [reqs EXCEPT ![r] =
                  [@ EXCEPT !.pc = "done",
                            !.timeoutId = timeoutId,
                            !.progressInterval = NoTimer,
                            !.elapsed = 0,
                            !.reason = why,
                            !.failNotices = @ + 1]]
    /\ writes' = before \o <<0>>
    /\ progress' = 0
    /\ emitted' = "Generation failed"
    /\ isGenerating' = FALSE
    /\ resume' = NoFile
    /\ UNCHANGED <<jobUrl, result, nReq, canvas, committed, textVars>>

\* catch (lines 166-173) and finally (174-176). `before` are the setProgress
\* calls the try block made in the same step, `timeoutId` the abort timer as
\* the try block left it.
catchAndFinally(r, before, timeoutId, why) ==
    /\ reqs' = [reqs EXCEPT ![r] =
                  [@ EXCEPT !.pc = "done",
                            !.timeoutId = timeoutId,
                            !.progressInterval = NoTimer,
                            !.elapsed = 0,
                            !.reason = why,
                            !.failNotices = @ + 1]]
    /\ writes' = before \o <<0>>
    /\ progress' = 0
    /\ emitted' = "Generation failed"
    /\ isGenerating' = FALSE
    /\ UNCHANGED <<jobUrl, resume, result, nReq, canvas, committed, textVars>>

\* `await responsePromise` rejects: transport failure (DNS, refused, reset).
fetchRejects(r) ==
    /\ reqs[r].pc = "fetching"
    /\ NetworkMaySettle(reqs[r].elapsed)
    /\ catchAndFinally(r, <<>>, reqs[r].timeoutId, "network")

\* Variant: clearInterval(progressInterval) is missing after the await.
responseArrivesKeepsInterval(r, ok) ==
    /\ reqs[r].pc = "fetching"
    /\ NetworkMaySettle(reqs[r].elapsed)
    /\ IF ok
       THEN /\ reqs' = [reqs EXCEPT ![r] =
                          [@ EXCEPT !.pc = "decoding",
                                    !.timeoutId = NoTimer]]
            /\ writes' = <<Pct(RESPONSE_RECEIVED), Pct(PARSING)>>
            /\ progress' = Pct(PARSING)
            /\ emitted' = "none"
            /\ UNCHANGED <<jobUrl, resume, isGenerating, result, nReq, canvas, committed,
                           textVars>>
       ELSE catchAndFinally(r, <<Pct(RESPONSE_RECEIVED)>>, NoTimer, "status")

\* `await responsePromise` resolves: lines 141-152 up to `await response.json()`.
responseArrives(r, ok) ==
    /\ reqs[r].pc = "fetching"
    /\ NetworkMaySettle(reqs[r].elapsed)
    /\ IF ok
       THEN /\ reqs' = [reqs EXCEPT ![r] =
                          [@ EXCEPT !.pc = "decoding",
                                    !.timeoutId = NoTimer,
                                    !.progressInterval = NoTimer,
                                    !.elapsed = 0]]
            /\ writes' = <<Pct(RESPONSE_RECEIVED), Pct(PARSING)>>
            /\ progress' = Pct(PARSING)
            /\ emitted' = "none"
            /\ UNCHANGED <<jobUrl, resume, isGenerating, result, nReq, canvas, committed, textVars>>
       ELSE catchAndFinally(r, <<Pct(RESPONSE_RECEIVED)>>, NoTimer, "status")

\* Variant: fetch is not given controller.signal, so abort() rejects nothing.
timeoutFiresNoSignal(r) ==
    /\ reqs[r].timeoutId = 0
    /\ reqs' = [reqs EXCEPT ![r].timeoutId = NoTimer]
    /\ writes' = <<>>
    /\ emitted' = "none"
    /\ UNCHANGED <<hookState, nReq, canvas, committed, textVars>>

\* The abort timer of line 127 fires: controller.abort() rejects a fetch that
\* is still pending, and is a no-op on a call that has settled.
timeoutFires(r) ==
    /\ reqs[r].timeoutId = 0
    /\ IF reqs[r].pc = "fetching"
       THEN catchAndFinally(r, <<>>, NoTimer, "timeout")
       ELSE /\ reqs' = [reqs EXCEPT ![r].timeoutId = NoTimer]
            /\ writes' = <<>>
            /\ emitted' = "none"
            /\ UNCHANGED <<hookState, nReq, canvas, committed, textVars>>

\* Variant: the completion is not delayed; progress 100 and the success toast
\* come in the step that stores the result.
jsonResolvesNoDelay(r, status) ==
    /\ reqs[r].pc = "decoding"
    /\ reqs' = [reqs EXCEPT ![r] =
                  [@ EXCEPT !.pc = "done", !.reason = "ok",
                            !.successNotices = @ + 1]]
    /\ writes' = <<Pct(PRE_COMPLETE), Pct(COMPLETE)>>
    /\ progress' = Pct(COMPLETE)
    /\ result' = [request_id |-> r, status |-> status]
    /\ isGenerating' = FALSE
    /\ emitted' = "Email generated!"
    /\ UNCHANGED <<jobUrl, resume, nReq, canvas, committed, textVars>>

\* `await response.json()` resolves: lines 155-164, then finally.
jsonResolves(r, status) ==
    /\ reqs[r].pc = "decoding"
    /\ reqs' = [reqs EXCEPT ![r] =
                  [@ EXCEPT !.pc = "done", !.reason = "ok",
                            !.completeTimer = COMPLETE_DELAY]]
    /\ writes' = <<Pct(PRE_COMPLETE)>>
    /\ progress' = Pct(PRE_COMPLETE)
    /\ result' = [request_id |-> r, status |-> status]
    /\ isGenerating' = FALSE
    /\ emitted' = "none"
    /\ UNCHANGED <<jobUrl, resume, nReq, canvas, committed, textVars>>

\* `await response.json()` rejects: the body is not JSON.
jsonRejects(r) ==
    /\ reqs[r].pc = "decoding"
    /\ catchAndFinally(r, <<>>, reqs[r].timeoutId, "decode")

\* The interval callback of startProgressTracking (lines 83-92).
progressTick(r) ==
    /\ reqs[r].progressInterval = 0
    /\ progress' = calculatedProgress(reqs[r].elapsed)
    /\ writes' = <<calculatedProgress(reqs[r].elapsed)>>
    /\ reqs' = [reqs EXCEPT ![r].progressInterval = PROGRESS_UPDATE_INTERVAL]
    /\ emitted' = "none"
    /\ UNCHANGED <<jobUrl, resume, isGenerating, result, nReq, canvas, committed, textVars>>

\* The delayed completion of lines 158-164.
completeFires(r) ==
    /\ reqs[r].completeTimer = 0
    /\ progress' = Pct(COMPLETE)
    /\ writes' = <<Pct(COMPLETE)>>
    /\ emitted' = "Email generated!"
    /\ reqs' = [reqs EXCEPT ![r] =
                  [@ EXCEPT !.completeTimer = NoTimer,
                            !.successNotices = @ + 1]]
    /\ UNCHANGED <<jobUrl, resume, isGenerating, result, nReq, canvas, committed, textVars>>

\* ------------------------------------------------------------------ render
\* State set outside an event handler is queued: React has a render to do.
renderQueued ==
    committed # [isGenerating |-> isGenerating, result |-> result]

\* React renders the queued state and runs the effects of CanvasFlow.
render ==
    /\ renderQueued
    /\ canvas' = Commit(canvas, committed.isGenerating, committed.result,
                        isGenerating, result)
    /\ committed' = [isGenerating |-> isGenerating, result |-> result]
    /\ writes' = <<>>
    /\ emitted' = "none"
    /\ UNCHANGED <<hookState, reqs, nReq, textVars>>

\* -------------------------------------------------------- CanvasFlow timers
showAgentsFires ==
    /\ canvas.agentsTimer = 0
    /\ canvas' = [canvas EXCEPT !.showAgents = TRUE, !.agentsTimer = NoTimer]
    /\ writes' = <<>>
    /\ emitted' = "none"
    /\ UNCHANGED <<hookState, reqs, nReq, committed, textVars>>

showFinalFires ==
    /\ canvas.finalTimer = 0
    /\ canvas' = [canvas EXCEPT !.showFinal = TRUE, !.finalTimer = NoTimer]
    /\ writes' = <<>>
    /\ emitted' = "none"
    /\ UNCHANGED <<hookState, reqs, nReq, committed, textVars>>

\* ------------------------------------------------------------------- time
Pending ==
    {reqs[r].timeoutId : r \in Reqs} \cup
    {reqs[r].progressInterval : r \in Reqs} \cup
    {reqs[r].completeTimer : r \in Reqs} \cup
    {canvas.agentsTimer, canvas.finalTimer}

Armed == Pending \ {NoTimer}

Run(t, d) == IF t = NoTimer THEN NoTimer ELSE t - d

\* Time passes up to the next deadline; a due callback and a queued render
\* run before it does.
Advance ==
    /\ Armed # {}
    /\ 0 \notin Armed
    /\ ~renderQueued
    /\ LET d == CHOOSE x \in Armed : \A y \in Armed : x <= y
       IN  /\ reqs' = [r \in Reqs |->
                  [reqs[r] EXCEPT
                     !.timeoutId = Run(@, d),
                     !.progressInterval = Run(@, d),
                     !.completeTimer = Run(@, d),
                     !.elapsed = IF reqs[r].progressInterval = NoTimer
                                 THEN @ ELSE @ + d]]
           /\ canvas' = [canvas EXCEPT !.agentsTimer = Run(@, d),
                                       !.finalTimer = Run(@, d)]
    /\ writes' = <<>>
    /\ emitted' = "none"
    /\ UNCHANGED <<hookState, nReq, committed, textVars>>

\* ------------------------------------------------------------ specification
\* The user touches the page while no call is in flight, and during the same
\* windows of a call in flight in which the network may settle.
UserMayAct ==
    \A r \in Reqs : reqs[r].pc = "fetching" => NetworkMaySettle(reqs[r].elapsed)

\* The hook as its callers may use it: any input in any state.
Next ==
    \/ UserMayAct /\ \E v \in Urls : setJobUrl(v)
    \/ UserMayAct /\ \E f \in Files \cup {NoFile} : handleFileChange(f)
    \/ UserMayAct /\ handleClear
    \/ UserMayAct /\ handleGenerate
    \/ \E r \in Reqs : fetchRejects(r)
    \/ \E r \in Reqs : \E ok \in BOOLEAN : responseArrives(r, ok)
    \/ \E r \in Reqs : timeoutFires(r)
    \/ \E r \in Reqs : \E s \in Statuses : jsonResolves(r, s)
    \/ \E r \in Reqs : jsonRejects(r)
    \/ \E r \in Reqs : progressTick(r)
    \/ \E r \in Reqs : completeFires(r)
    \/ render
    \/ showAgentsFires
    \/ showFinalFires
    \/ Advance

Spec == Init /\ [][Next]_vars

\* The hook under a caller that keeps its contract: it reads the isGenerating
\* flag the hook returns and does not call handleGenerate while it is set.
\* Every other input comes in any state.
NextGated ==
    \/ UserMayAct /\ \E v \in Urls : setJobUrl(v)
    \/ UserMayAct /\ \E f \in Files \cup {NoFile} : handleFileChange(f)
    \/ UserMayAct /\ handleClear
    \/ UserMayAct /\ ~committed.isGenerating /\ handleGenerate
    \/ \E r \in Reqs : fetchRejects(r)
    \/ \E r \in Reqs : \E ok \in BOOLEAN : responseArrives(r, ok)
    \/ \E r \in Reqs : timeoutFires(r)
    \/ \E r \in Reqs : \E s \in Statuses : jsonResolves(r, s)
    \/ \E r \in Reqs : jsonRejects(r)
    \/ \E r \in Reqs : progressTick(r)
    \/ \E r \in Reqs : completeFires(r)
    \/ render
    \/ showAgentsFires
    \/ showFinalFires
    \/ Advance

SpecGated == Init /\ [][NextGated]_vars

\* ------------------------------------------------------------ the Index page
\* The page shows what React last rendered.
\* The form is rendered only while there is no result (`{!result && ...}`).
formVisible == committed.result = NoResult

\* The Clear button's `disabled` attribute.
clearDisabled == committed.isGenerating

\* The Generate button's `disabled` attribute.
generateDisabled == committed.isGenerating \/ jobUrl = "" \/ resume = NoFile

\* The hook driven through the controls the Index page renders.
NextIndex ==
    \/ UserMayAct /\ formVisible /\ \E v \in Urls : setJobUrl(v)
    \/ UserMayAct /\ formVisible /\ \E f \in Files \cup {NoFile} : handleFileChange(f)
    \/ UserMayAct /\ formVisible /\ ~clearDisabled /\ handleClear
    \/ UserMayAct /\ formVisible /\ ~generateDisabled /\ handleGenerate
    \/ \E r \in Reqs : fetchRejects(r)
    \/ \E r \in Reqs : \E ok \in BOOLEAN : responseArrives(r, ok)
    \/ \E r \in Reqs : timeoutFires(r)
    \/ \E r \in Reqs : \E st \in Statuses : jsonResolves(r, st)
    \/ \E r \in Reqs : jsonRejects(r)
    \/ \E r \in Reqs : progressTick(r)
    \/ \E r \in Reqs : completeFires(r)
    \/ render
    \/ showAgentsFires
    \/ showFinalFires
    \/ Advance

SpecIndex == Init /\ [][NextIndex]_vars

\* The event loop runs every due callback and lets time pass.
TimersRun ==
    /\ WF_vars(Advance)
    /\ WF_vars(render)
    /\ WF_vars(showAgentsFires)
    /\ WF_vars(showFinalFires)
    /\ \A r \in Reqs : WF_vars(progressTick(r))
    /\ \A r \in Reqs : WF_vars(timeoutFires(r))
    /\ \A r \in Reqs : WF_vars(completeFires(r))

FairSpec == Spec /\ TimersRun

FairSpecIndex == SpecIndex /\ TimersRun

\* ------------------------------------------------------- the text transforms
\* The hook and CanvasFlow at rest, and a text as the backend may return it.
InitText ==
    /\ jobUrl = ""
    /\ resume = NoFile
    /\ isGenerating = FALSE
    /\ result = NoResult
    /\ progress = 0
    /\ reqs = [r \in Reqs |-> UnusedReq]
    /\ nReq = 0
    /\ canvas = Unmounted
    /\ committed = NothingRendered
    /\ writes = <<>>
    /\ emitted = "none"
    /\ content \in Texts
    /\ returned = NotCalled
    /\ clipboard = EmptyClipboard
    /\ copiedFinal = FALSE
    /\ resets = 0
    /\ draft = <<>>
    /\ copied = FALSE
    /\ draftResets = 0

applyRemoveThinkTags ==
    /\ returned' = [of |-> "removeThinkTags", raised |-> FALSE,
                    value |-> removeThinkTags(content)]
    /\ UNCHANGED <<hookState, reqs, nReq, canvas, committed, writes, emitted, content,
                   clipboard, copiedFinal, resets, draft, copied, draftResets>>

applyStripMarkdownCodeBlocks ==
    /\ returned' = [of |-> "stripMarkdownCodeBlocks", raised |-> FALSE,
                    value |-> stripMarkdownCodeBlocks(content)]
    /\ UNCHANGED <<hookState, reqs, nReq, canvas, committed, writes, emitted, content,
                   clipboard, copiedFinal, resets, draft, copied, draftResets>>

applyParseJsonWrapper ==
    /\ returned' = [of |-> "parseJsonWrapper",
                    raised |-> parseJsonWrapper(content).raised,
                    value |-> parseJsonWrapper(content).value]
    /\ UNCHANGED <<hookState, reqs, nReq, canvas, committed, writes, emitted, content,
                   clipboard, copiedFinal, resets, draft, copied, draftResets>>

NextText ==
    \/ applyRemoveThinkTags
    \/ applyStripMarkdownCodeBlocks
    \/ applyParseJsonWrapper

SpecText == InitText /\ [][NextText]_vars

\* ------------------------------------------------------- the final email card
\* ToBoolean, as `||`, `!` and `if` apply it to a value.
Truthy(v) ==
    CASE v.kind \in {"undefined", "null", "false"} -> FALSE
      [] v.kind = "string" -> v.chars # <<>>
      [] OTHER -> TRUE

\* FinalEmailCard: `const emailContent = email || aggregation.final_email`,
\* the text rendered in the card.
emailContent(final_email) ==
    LET email == parseJsonWrapper(final_email).value.email
    IN  IF Truthy(email) THEN email ELSE JSString(final_email)

\* The text handleCopyFinal hands to copyToClipboard, undefined when it
\* returns without copying (`!final_email`, or an email that is not truthy).
copiedText(final_email) ==
    LET email == parseJsonWrapper(final_email).value.email
    IN  IF final_email = <<>> THEN undefined
        ELSE IF Truthy(email) THEN email
        ELSE undefined

\* The final card and one AgentCard, rendered on a result whose
\* aggregation.final_email is content and with a complete draft of text draft.
InitCard ==
    /\ jobUrl = ""
    /\ resume = NoFile
    /\ isGenerating = FALSE
    /\ result = NoResult
    /\ progress = 0
    /\ reqs = [r \in Reqs |-> UnusedReq]
    /\ nReq = 0
    /\ canvas = Unmounted
    /\ committed = NothingRendered
    /\ writes = <<>>
    /\ emitted = "none"
    /\ content \in CardTexts
    /\ returned = NotCalled
    /\ clipboard = EmptyClipboard
    /\ copiedFinal = FALSE
    /\ resets = 0
    /\ draft \in Drafts
    /\ copied = FALSE
    /\ draftResets = 0

FinalEmailCard ==
    /\ returned' = [of |-> "FinalEmailCard", raised |-> FALSE,
                    value |-> emailContent(content)]
    /\ emitted' = "none"
    /\ UNCHANGED <<hookState, reqs, nReq, canvas, committed, writes, content,
                   clipboard, copiedFinal, resets, draft, copied, draftResets>>

\* The Copy Final Email button; copyToClipboard writes the text, sets copied,
\* shows its toast and arms the reset.
handleCopyFinal ==
    /\ resets + draftResets < MaxResets
    /\ returned' = [of |-> "handleCopyFinal", raised |-> FALSE,
                    value |-> undefined]
    /\ IF copiedText(content) = undefined
       THEN /\ emitted' = "none"
            /\ UNCHANGED <<clipboard, copiedFinal, resets>>
       ELSE /\ clipboard' = copiedText(content)
            /\ copiedFinal' = TRUE
            /\ emitted' = "Copied to clipboard"
            /\ resets' = resets + 1
    /\ UNCHANGED <<hookState, reqs, nReq, canvas, committed, writes, content,
                   draft, copied, draftResets>>

\* () => setCopied(false) of the hook instance in CanvasFlow.
resetCopied ==
    /\ resets > 0
    /\ resets' = resets - 1
    /\ copiedFinal' = FALSE
    /\ emitted' = "none"
    /\ UNCHANGED <<hookState, reqs, nReq, canvas, committed, writes, content,
                   returned, clipboard, draft, copied, draftResets>>

\* AgentCard: `const cleanDraft = removeThinkTags(draft.draft)`.
cleanDraft(text) == JSString(removeThinkTags(text))

\* The copy button of the AgentCard: copyToClipboard(cleanDraft, ...).
handleCopy ==
    /\ resets + draftResets < MaxResets
    /\ returned' = [of |-> "handleCopy", raised |-> FALSE,
                    value |-> undefined]
    /\ clipboard' = cleanDraft(draft)
    /\ copied' = TRUE
    /\ emitted' = "Copied to clipboard"
    /\ draftResets' = draftResets + 1
    /\ UNCHANGED <<hookState, reqs, nReq, canvas, committed, writes, content,
                   copiedFinal, resets, draft>>

\* () => setCopied(false) of the hook instance in the AgentCard.
resetCopiedDraft ==
    /\ draftResets > 0
    /\ draftResets' = draftResets - 1
    /\ copied' = FALSE
    /\ emitted' = "none"
    /\ UNCHANGED <<hookState, reqs, nReq, canvas, committed, writes, content,
                   returned, clipboard, copiedFinal, resets, draft>>

NextCard ==
    \/ FinalEmailCard
    \/ handleCopyFinal
    \/ resetCopied
    \/ handleCopy
    \/ resetCopiedDraft

SpecCard == InitCard /\ [][NextCard]_vars

\* ------------------------------------------------------------------ helpers
InFlight(r) == reqs[r].pc \in {"fetching", "decoding"}

Failed(r) == reqs[r].pc = "done" /\ reqs[r].reason # "ok"

Succeeded(r) == reqs[r].pc = "done" /\ reqs[r].reason = "ok"

NonDecreasing(s) == \A i \in 1 .. Len(s) - 1 : s[i] <= s[i + 1]

NoTimers(q) ==
    /\ q.timeoutId = NoTimer
    /\ q.progressInterval = NoTimer
    /\ q.completeTimer = NoTimer

\* ---------------------------------------------------------------------- C1
\* The state handleClear leaves when it is called with request r in flight.
ClearedInFlight(r) ==
    /\ InFlight(r)
    /\ jobUrl = "" /\ resume = NoFile /\ result = NoResult /\ progress = 0

\* C1: after handleClear was called with a request in flight, the settlement
\* of that request (its response, its failure, its decoded body) changes none
\* of result, progress, jobUrl, resume.
C1_SettlementAfterClearIsDiscarded ==
    [][\A r \in Reqs :
          (ClearedInFlight(r) /\ reqs'[r].pc # reqs[r].pc)
              => UNCHANGED <<result, progress, jobUrl, resume>>]_vars

\* ---------------------------------------------------------------------- C2
\* C2: from the submit of the latest request on, as long as it has not failed
\* and neither a clear nor another submit is made, no step lowers progress:
\* the values come in the order 0, 5, 10, 20, timer values in [20, 80], 85,
\* 90, 95, 100.
C2_ProgressNeverDecreases ==
    [][(nReq > 0 /\ nReq' = nReq /\ ~Failed(nReq)' /\ ~handleClear)
          => progress' >= progress]_vars

\* ---------------------------------------------------------------------- C3
\* C3: every failure of a request in flight (transport error, non-2xx status,
\* timeout abort, body decode failure) ends in the same step with the progress
\* interval cleared, progress 0, no result, isGenerating false and one
\* "Generation failed" toast; no request ever has more than one.
C3_FailureResets ==
    /\ [][\A r \in Reqs :
            (InFlight(r) /\ Failed(r)')
            => /\ reqs'[r].reason \in {"network", "status", "timeout", "decode"}
               /\ reqs'[r].progressInterval = NoTimer
               /\ progress' = 0
               /\ Last(writes') = 0
               /\ result' = NoResult
               /\ ~isGenerating'
               /\ emitted' = "Generation failed"
               /\ reqs'[r].failNotices = 1]_vars
    /\ [](\A r \in Reqs : reqs[r].failNotices = IF Failed(r) THEN 1 ELSE 0)

\* Two requests have failed, one by timeout and one on its body.
C3_Witness ==
    /\ reqs[1].reason = "timeout" /\ reqs[1].failNotices = 1
    /\ reqs[2].reason = "decode" /\ reqs[2].failNotices = 1
    /\ progress = 0 /\ ~isGenerating /\ result = NoResult

\* ---------------------------------------------------------------------- C4
\* C4: with handleGenerate gated on isGenerating, at most one network call is
\* in flight, and isGenerating is true whenever one is.
C4_OneCallInFlight ==
    /\ Cardinality({r \in Reqs : InFlight(r)}) <= 1
    /\ \A r \in Reqs : InFlight(r) => isGenerating

\* The second request is in flight after the first one has ended.
C4_Witness == nReq = 2 /\ reqs[1].pc = "done" /\ reqs[2].pc = "decoding"

\* ---------------------------------------------------------------------- C5
MissingInput == jobUrl = "" \/ resume = NoFile

\* C5: handleGenerate with an empty jobUrl or no document opens no network
\* call, arms no timer and changes no state; it only emits the
\* "Missing information" toast.
C5_MissingInputTouchesNothing ==
    /\ [][MissingInput => (nReq' = nReq /\ \A r \in Reqs :
                              reqs[r].pc = "unused" => reqs'[r] = reqs[r])]_vars
    /\ [][(MissingInput /\ handleGenerate)
             => /\ emitted' = "Missing information"
                /\ writes' = <<>>
                /\ UNCHANGED <<hookState, reqs, nReq, canvas, committed>>]_vars
    /\ [][emitted' = "Missing information"
             => (MissingInput /\ UNCHANGED <<hookState, reqs, nReq, canvas, committed>>)]_vars

\* Submit with an empty url and a valid document.
C5_Witness ==
    /\ emitted = "Missing information"
    /\ jobUrl = "" /\ resume # NoFile /\ nReq = 0 /\ ~isGenerating

\* ---------------------------------------------------------------------- C6
InvalidDocument(f) == f.type \notin validTypes \/ f.size > MAX_FILE_SIZE

\* C6: handleFileChange with a file of another media type or above the size
\* cap keeps the attached document and every other state, and emits the
\* matching toast, in every state (document attached, request in flight).
C6_InvalidDocumentRejected ==
    /\ [][\A f \in Files :
            (InvalidDocument(f) /\ handleFileChange(f))
            => /\ emitted' = IF f.type \notin validTypes
                               THEN "Invalid file type" ELSE "File too large"
               /\ UNCHANGED <<hookState, reqs, nReq, canvas, committed>>]_vars
    /\ [][emitted' \in {"Invalid file type", "File too large"}
             => UNCHANGED <<hookState, reqs, nReq, canvas, committed>>]_vars
    /\ [](resume # NoFile => ~InvalidDocument(resume))

\* An oversized file was rejected with a document attached and a call in flight.
C6_Witness ==
    /\ emitted = "File too large"
    /\ resume # NoFile /\ isGenerating /\ \E r \in Reqs : InFlight(r)

\* ---------------------------------------------------------------------- C7
\* C7: a call is never in flight beyond REQUEST_TIMEOUT: when it has not
\* settled by then the abort timer is due; its firing ends the request in
\* failure with no result, isGenerating false and progress 0, and leaves no
\* timer of that request armed, then or later.
C7_TimeoutEndsRequest ==
    /\ [](\A r \in Reqs :
            reqs[r].pc = "fetching"
            => /\ reqs[r].elapsed <= REQUEST_TIMEOUT
               /\ reqs[r].timeoutId = REQUEST_TIMEOUT - reqs[r].elapsed)
    /\ [][\A r \in Reqs :
            (reqs[r].pc = "fetching" /\ reqs[r].timeoutId = 0
                /\ reqs'[r].timeoutId = NoTimer)
            => /\ Failed(r)'
               /\ reqs'[r].reason = "timeout"
               /\ result' = NoResult
               /\ ~isGenerating'
               /\ progress' = 0
               /\ NoTimers(reqs'[r])]_vars
    /\ [](\A r \in Reqs : reqs[r].reason = "timeout" => NoTimers(reqs[r]))

\* A request was aborted by its timeout.
C7_Witness ==
    /\ reqs[1].reason = "timeout" /\ reqs[1].pc = "done"
    /\ progress = 0 /\ ~isGenerating /\ result = NoResult

\* ---------------------------------------------------------------------- C8
\* C8: the reveal phase advances Idle -> AgentsVisible -> FinalVisible only:
\* showFinal is true only if showAgents is true, for every response latency.
C8_FinalOnlyAfterAgents == canvas.showFinal => canvas.showAgents

\* ---------------------------------------------------------------------- C9
\* C9: showFinal becomes true only by the firing of the FINAL_DELAY timer,
\* which is armed only while a result with status "complete" is stored; it is
\* true only while the latest request is one that succeeded, never for a
\* request that is pending or has failed.
C9_FinalOnlyOnSuccess ==
    /\ [][(canvas'.showFinal /\ ~canvas.showFinal)
             => /\ canvas.finalTimer = 0
                /\ canvas'.finalTimer = NoTimer
                /\ result' = result]_vars
    /\ [](canvas.finalTimer # NoTimer
             => result # NoResult /\ result.status = "complete")
    /\ [](canvas.showFinal
             => /\ nReq > 0 /\ Succeeded(nReq)
                /\ result = [request_id |-> nReq, status |-> "complete"])

\* The first request failed, the second one succeeded and reached FinalVisible.
C9_Witness ==
    /\ nReq = 2 /\ Failed(1) /\ Succeeded(2)
    /\ canvas.showFinal

\* --------------------------------------------------------------------- C10
\* C10: the step that starts a request leaves showAgents and showFinal false,
\* the AGENTS_DELAY timer freshly armed and no FINAL_DELAY timer; an armed
\* reveal timer always belongs to the latest request (the agents timer to the
\* request that is pending or whose end React has still to render, the final
\* timer to the result that is stored).
C10_RevealTimersBelongToLatest ==
    /\ [][nReq' = nReq + 1
             => /\ ~canvas'.showAgents /\ ~canvas'.showFinal
                /\ canvas'.agentsTimer = AGENTS_DELAY
                /\ canvas'.finalTimer = NoTimer]_vars
    /\ [](canvas.agentsTimer # NoTimer
             => (nReq > 0 /\ (InFlight(nReq) \/ renderQueued)))
    /\ [](canvas.finalTimer # NoTimer
             => (nReq > 0 /\ Succeeded(nReq) /\ result.request_id = nReq))

\* The second request started while the first one's result was displayed and
\* its reveal of the final section was still pending.
C10_Witness ==
    /\ nReq = 2 /\ InFlight(2)
    /\ Succeeded(1) /\ reqs[1].completeTimer # NoTimer
    /\ canvas.agentsTimer # NoTimer /\ canvas.finalTimer = NoTimer

\* --------------------------------------------------------------------- C11
\* C11: the AGENTS_DELAY timer armed when a request becomes pending runs to
\* its firing, which sets showAgents; only the start of a new request ends it
\* earlier, whatever the duration of the request.
C11_AgentsTimerRunsOut ==
    [][(canvas.agentsTimer # NoTimer /\ nReq' = nReq)
          => (canvas'.agentsTimer # NoTimer \/ canvas'.showAgents)]_vars

\* --------------------------------------------------------------------- C12
\* C12: handleClear, called in any state, leaves the initial hook state:
\* jobUrl empty, no document, no result, progress 0 and isGenerating false.
C12_ClearRestoresInitial ==
    [][handleClear
          => /\ jobUrl' = "" /\ resume' = NoFile /\ result' = NoResult
             /\ progress' = 0 /\ ~isGenerating']_vars

\* --------------------------------------------------------------------- C13
\* C13: after handleClear was called while a request is fetching, no tick of
\* that request's progress interval changes progress.
C13_NoTickAfterClear ==
    [][\A r \in Reqs :
          (ClearedInFlight(r) /\ reqs[r].pc = "fetching"
              /\ reqs'[r].pc = "fetching" /\ nReq' = nReq
              /\ reqs'[r].progressInterval = PROGRESS_UPDATE_INTERVAL
              /\ reqs[r].progressInterval = 0)
          => progress' = progress]_vars

\* --------------------------------------------------------------------- C14
\* C14: the step that decodes the body stores the result with progress 95, no
\* toast, and the COMPLETE_DELAY timer freshly armed; the success toast is
\* emitted only by the firing of that timer, together with progress 100; a
\* request has one success toast once that timer has fired, which it
\* eventually does, and none before or when it failed.
C14_ResultThenComplete ==
    /\ [][\A r \in Reqs :
            (reqs[r].pc = "decoding" /\ Succeeded(r)')
            => /\ result' # NoResult /\ result'.request_id = r
               /\ progress' = Pct(PRE_COMPLETE)
               /\ emitted' = "none"
               /\ reqs'[r].completeTimer = COMPLETE_DELAY
               /\ reqs'[r].successNotices = 0]_vars
    /\ [][emitted' = "Email generated!"
             => \E r \in Reqs :
                   /\ Succeeded(r) /\ reqs[r].completeTimer = 0
                   /\ reqs'[r].completeTimer = NoTimer
                   /\ reqs'[r].successNotices = 1
                   /\ progress' = Pct(COMPLETE)]_vars
    /\ [](\A r \in Reqs :
            reqs[r].successNotices =
               IF Succeeded(r) /\ reqs[r].completeTimer = NoTimer THEN 1 ELSE 0)
    /\ \A r \in Reqs : Succeeded(r) ~> (reqs[r].successNotices = 1)

\* One request failed and one succeeded; the success toast has just been shown.
C14_Witness ==
    /\ nReq = 2 /\ Failed(1) /\ Succeeded(2)
    /\ reqs[1].successNotices = 0 /\ reqs[2].successNotices = 1
    /\ emitted = "Email generated!" /\ progress = Pct(COMPLETE)
    /\ result # NoResult

\* --------------------------------------------------------------------- C15
\* C15: on the Index page every failure of a request changes neither jobUrl
\* nor the document and ends with isGenerating false and no result; the
\* render of that state shows the form with Generate enabled on the inputs
\* the failure left, and a handleGenerate that follows at once passes
\* validation on them and opens the next request.
C15_FailureKeepsInputs ==
    /\ [][\A r \in Reqs :
            (InFlight(r) /\ Failed(r)')
            => /\ UNCHANGED <<jobUrl, resume>>
               /\ ~isGenerating' /\ result' = NoResult
               /\ formVisible']_vars
    /\ [][(render /\ nReq > 0 /\ Failed(nReq))
             => /\ UNCHANGED <<jobUrl, resume>>
                /\ formVisible'
                /\ (generateDisabled' <=> MissingInput)]_vars
    /\ [][(nReq > 0 /\ Failed(nReq) /\ ~renderQueued /\ ~MissingInput
                /\ handleGenerate)
             => /\ nReq' = nReq + 1
                /\ reqs'[nReq'].pc = "fetching"
                /\ UNCHANGED <<jobUrl, resume>>]_vars
    /\ [](emitted = "Generation failed" => (formVisible /\ ~isGenerating))

\* The first request failed and the second was submitted on the same inputs
\* in the step right after the failure.
C15_Witness ==
    /\ nReq = 2 /\ Failed(1) /\ reqs[2].pc = "fetching"
    /\ reqs[2].elapsed = 0 /\ reqs[1].timeoutId # NoTimer
    /\ jobUrl # "" /\ resume # NoFile

\* --------------------------------------------------------------------- C16
\* C16: every step of the hook that lowers progress is the start of a request
\* or the failure handling of a request.
C16_ProgressLoweredOnlyByStartOrFailure ==
    [][progress' < progress
          => \/ nReq' = nReq + 1
             \/ \E r \in Reqs : InFlight(r) /\ Failed(r)']_vars

\* --------------------------------------------------------------------- C17
\* C17: handleFileChange stores the file exactly when its type is PDF or DOCX
\* and its size is at most MAX_FILE_SIZE (that size included), and then
\* changes nothing but the document.
C17_DocumentStoredIffValid ==
    [][\A f \in Files :
          handleFileChange(f)
          => /\ (resume' = f) <=>
                   (f.type \in validTypes /\ f.size <= MAX_FILE_SIZE)
             /\ (resume' # f) => resume' = resume
             /\ (resume' = f) =>
                   /\ emitted' = "none"
                   /\ UNCHANGED <<jobUrl, isGenerating, result, progress,
                                  reqs, nReq, canvas, committed>>]_vars

\* A DOCX of exactly the cap replaced the document while a call was in flight.
C17_Witness ==
    /\ resume = [type |-> DOCX, size |-> MAX_FILE_SIZE]
    /\ emitted = "none" /\ writes = <<>>
    /\ \E r \in Reqs : InFlight(r) /\ reqs[r].elapsed > 0

\* --------------------------------------------------------------------- C18
\* C18: parseJsonWrapper raises for no text; when the text that
\* stripMarkdownCodeBlocks leaves is malformed or decodes to null, it returns
\* that text as email with parsed false (and no reasoning).
C18_NeverRaises ==
    returned.of = "parseJsonWrapper"
    => /\ ~returned.raised
       /\ LET cleanContent == stripMarkdownCodeBlocks(content)
              decoded == JSONparse(cleanContent)
          IN  (decoded.threw \/ decoded.value.kind = "null")
              => returned.value = [email |-> JSString(cleanContent),
                                   reasoning |-> undefined,
                                   parsed |-> FALSE]

\* A fenced null was handed in and came back as the text "null".
C18_Witness ==
    /\ returned.of = "parseJsonWrapper"
    /\ content = FENCE_OPEN \o LIT_NULL \o FENCE_CLOSE
    /\ ~returned.raised /\ ~returned.value.parsed
    /\ returned.value.email = JSString(LIT_NULL)

\* --------------------------------------------------------------------- C19
\* The text holds no fence at all.
NoFence(s) == \A p \in 1 .. Len(s) : ~MatchAt(s, p, FENCE)

\* The part of C19 on texts that decode as an object once the fences are off.
DecodedObjectReturned ==
    LET decoded == JSONparse(stripMarkdownCodeBlocks(content))
    IN  (~decoded.threw /\ decoded.value.kind = "object")
        => returned.value = [email |-> Get(decoded.value, FINAL_EMAIL),
                             reasoning |-> Get(decoded.value, REASONING),
                             parsed |-> TRUE]

\* C19 as stated: a text that decodes as an object once its fences are
\* removed gives email = final_email, reasoning = reasoning, parsed true; a
\* text without fences that does not decode gives email = that same text and
\* parsed false.
C19_PlainTextReturnedAsIs ==
    returned.of = "parseJsonWrapper"
    => /\ DecodedObjectReturned
       /\ (NoFence(content) /\ JSONparse(content).threw)
          => (returned.value.email = JSString(content)
                 /\ ~returned.value.parsed)

\* C19 amended: a text that decodes as an object once its fences are removed
\* gives email = final_email, reasoning = reasoning, parsed true; a text
\* without fences that does not decode gives email = that text with the
\* white space around it trimmed, and parsed false.
C19_PlainTextReturnedTrimmed ==
    returned.of = "parseJsonWrapper"
    => /\ DecodedObjectReturned
       /\ (NoFence(content) /\ JSONparse(content).threw)
          => (returned.value.email = JSString(trim(content))
                 /\ ~returned.value.parsed)

\* The fenced example was decoded: email "Hi", reasoning "why".
C19_Witness ==
    /\ returned.of = "parseJsonWrapper"
    /\ content = FENCED_EXAMPLE
    /\ returned.value = [email |-> JSString(PLAIN_HI),
                         reasoning |-> JSString(<<"w", "h", "y">>),
                         parsed |-> TRUE]

\* --------------------------------------------------------------------- C20
\* C20 as stated: removeThinkTags("a<think>x</think>b<think>y</think>c")
\* returns "ab c".
C20_ExampleKeepsSpace ==
    (returned.of = "removeThinkTags" /\ content = THINK_EXAMPLE)
    => returned.value = <<"a", "b", " ", "c">>

\* C20 amended: removeThinkTags("a<think>x</think>b<think>y</think>c")
\* returns "abc": both spans are removed and what remains is joined with
\* nothing put in their place.
C20_ExampleJoined ==
    (returned.of = "removeThinkTags" /\ content = THINK_EXAMPLE)
    => returned.value = <<"a", "b", "c">>

\* removeThinkTags was applied to the example.
C20_Witness ==
    /\ returned.of = "removeThinkTags"
    /\ content = THINK_EXAMPLE
    /\ Len(returned.value) = 3

\* --------------------------------------------------------------------- C21
\* C21: the step that writes 85 for a request has cleared that request's
\* progress interval: a request past its response (decoding or done) has no
\* interval armed, a tick of a request fires only while it is fetching, and so
\* no tick of a request follows its own 85, 90, 95 or 100.
C21_IntervalClearedBeforeResponseFloors ==
    /\ [](\A r \in Reqs :
            reqs[r].pc \in {"decoding", "done"}
            => reqs[r].progressInterval = NoTimer)
    /\ [][\A r \in Reqs :
            (writes' # <<>> /\ writes'[1] = Pct(RESPONSE_RECEIVED)
                /\ reqs'[r] # reqs[r])
            => /\ reqs[r].pc = "fetching"
               /\ reqs'[r].progressInterval = NoTimer]_vars
    /\ [][\A r \in Reqs :
            (reqs[r].progressInterval = 0
                /\ reqs'[r].progressInterval = PROGRESS_UPDATE_INTERVAL)
            => /\ reqs[r].pc = "fetching" /\ reqs'[r].pc = "fetching"
               /\ writes' = <<calculatedProgress(reqs[r].elapsed)>>
               /\ writes'[1] <= Pct(PROCESSING_END)]_vars

\* A response has arrived: the request is decoding at 90 with neither its
\* interval nor its abort timer armed, the agents already shown.
C21_Witness ==
    /\ \E r \in Reqs :
          /\ reqs[r].pc = "decoding"
          /\ reqs[r].progressInterval = NoTimer
          /\ reqs[r].timeoutId = NoTimer
    /\ progress = Pct(PARSING)
    /\ canvas.showAgents

\* --------------------------------------------------------------------- C22
\* C22: a request that passed validation ends no later than its abort timer
\* fires, whatever the backend does: as long as the request is in flight
\* (headers awaited, or body awaited) its REQUEST_TIMEOUT timer is armed.
C22_InFlightHasAbortTimer ==
    \A r \in Reqs : InFlight(r) => reqs[r].timeoutId # NoTimer

\* --------------------------------------------------------------------- C23
\* C23: the delayed completion of a successful request leaves progress alone
\* once handleGenerate has started a newer request.
C23_StaleCompletionIsDiscarded ==
    [][\A r \in Reqs :
          (reqs[r].completeTimer = 0 /\ reqs'[r].completeTimer = NoTimer
              /\ r < nReq)
          => progress' = progress]_vars

\* --------------------------------------------------------------------- C24
\* C24: on the Index page the user can always get to a state in which a new
\* request can be started: whenever no request is pending, after a success
\* too, the form with its Clear and Generate buttons is rendered.
C24_FormShownWhenIdle == ~isGenerating => formVisible

\* --------------------------------------------------------------------- C25
\* The step that stores the decoded body of request r.
Stores(r) == reqs[r].pc = "decoding" /\ Succeeded(r)'

\* The render that puts a newly stored result on the page.
RendersResult == render /\ result # NoResult /\ committed.result # result

\* C25 as stated: whatever the status field of the payload, the render of
\* the stored result arms the FINAL_DELAY timer, which runs to its firing
\* unless the result is replaced.
C25_FinalRevealedForEveryStatus ==
    [][RendersResult => canvas'.finalTimer = FINAL_DELAY]_vars

\* C25 amended: the step that stores a result queues its render, which comes
\* before any time has passed; for a result of status "complete" it arms the
\* FINAL_DELAY timer with showFinal false; the timer runs until it fires and
\* sets showFinal, unless the result is replaced first, and on the Index page
\* it does fire. A result of status "processing" or "failed" arms no timer
\* and never shows the final section.
C25_FinalRevealedWhenComplete ==
    /\ [][\A r \in Reqs :
            Stores(r) => (renderQueued' /\ canvas'.finalTimer = NoTimer)]_vars
    /\ [][RendersResult
            => /\ reqs[result.request_id].completeTimer = COMPLETE_DELAY
               /\ ~canvas'.showFinal
               /\ canvas'.finalTimer =
                     IF result.status = "complete" THEN FINAL_DELAY
                                                   ELSE NoTimer]_vars
    /\ [][(canvas.finalTimer # NoTimer /\ result' = result)
             => (canvas'.finalTimer # NoTimer \/ canvas'.showFinal)]_vars
    /\ [](result # NoResult /\ result.status # "complete"
             => (~canvas.showFinal /\ canvas.finalTimer = NoTimer))
    /\ (result # NoResult /\ result.status = "complete") ~> canvas.showFinal

\* A result of status "complete" is shown in full: toast emitted, progress
\* 100, final section visible.
C25_Witness ==
    /\ result # NoResult /\ result.status = "complete"
    /\ Succeeded(result.request_id)
    /\ reqs[result.request_id].successNotices = 1
    /\ progress = Pct(COMPLETE)
    /\ canvas.showFinal

\* --------------------------------------------------------------------- C26
\* C26: isGenerating implies that no result is stored: the step that starts a
\* request clears the result as it raises the flag, and a result is stored
\* only by a step that takes the flag down.
C26_GeneratingImpliesNoResult ==
    /\ [](isGenerating => result = NoResult)
    /\ [][nReq' = nReq + 1 => (isGenerating' /\ result' = NoResult)]_vars
    /\ [][(result' # result /\ result' # NoResult)
             => (isGenerating /\ ~isGenerating')]_vars

\* A second request is pending after the first one's result had been stored.
C26_Witness ==
    /\ nReq = 2 /\ Succeeded(1) /\ InFlight(2)
    /\ isGenerating /\ result = NoResult

\* --------------------------------------------------------------------- C27
\* C27: once a request has settled (success, transport error, non-2xx
\* status, decode failure) its REQUEST_TIMEOUT timer is no longer pending.
C27_NoAbortTimerAfterSettle ==
    \A r \in Reqs : reqs[r].pc = "done" => reqs[r].timeoutId = NoTimer

\* --------------------------------------------------------------------- C28
\* Request r runs its interval callback in this step.
Ticks(r) ==
    /\ reqs[r].progressInterval = 0
    /\ reqs'[r].progressInterval = PROGRESS_UPDATE_INTERVAL

\* C28: a tick at t ms writes min(80, 20 + 60 * t / 45000) percent: the value
\* lies on the line from 20 at 0 s to 80 at 45 s, is within [20, 80], is not
\* below the value of the tick before, and is 80 from 45 s on; on the Index
\* page a request that has been fetching for more than 45 s stays at 80.
C28_TickValue ==
    /\ [][\A r \in Reqs :
            Ticks(r)
            => LET t == reqs[r].elapsed
                   v == writes'[1]
               IN  /\ writes' = <<v>> /\ progress' = v
                   /\ t >= PROGRESS_UPDATE_INTERVAL
                   /\ t % PROGRESS_UPDATE_INTERVAL = 0
                   /\ Pct(PROCESSING_START) <= v /\ v <= Pct(PROCESSING_END)
                   /\ IF t >= ESTIMATED_PROCESSING_TIME
                      THEN v = Pct(PROCESSING_END)
                      ELSE (v - Pct(PROCESSING_START)) * ESTIMATED_PROCESSING_TIME
                              = (Pct(PROCESSING_END) - Pct(PROCESSING_START)) * t
                   /\ progress <= v]_vars
    /\ [](\A r \in Reqs :
            (reqs[r].pc = "fetching"
                /\ reqs[r].elapsed > ESTIMATED_PROCESSING_TIME)
            => progress = Pct(PROCESSING_END))

\* A request has been fetching for twice the estimate and is held at 80.
C28_Witness ==
    \E r \in Reqs :
       /\ reqs[r].pc = "fetching"
       /\ reqs[r].elapsed >= 2 * ESTIMATED_PROCESSING_TIME
       /\ progress = Pct(PROCESSING_END)
       /\ writes = <<Pct(PROCESSING_END)>>

\* C29: once the Copy Final Email button has been pressed, the clipboard holds
\* exactly the text FinalEmailCard renders for the same final_email.
C29_CopyMatchesCard ==
    returned.of = "handleCopyFinal" => clipboard = emailContent(content)

\* A complete span: an opening tag with a closing tag somewhere after it.
HasSpan(s) ==
    \E p \in 1 .. Len(s) :
        /\ MatchAt(s, p, OPEN_TAG)
        /\ \E q \in p + Len(OPEN_TAG) .. Len(s) : MatchAt(s, q, CLOSE_TAG)

\* C30: the output of removeThinkTags contains no complete span and a second
\* application leaves it as it is; a text without a span is returned trimmed.
C30_OutputHasNoSpan ==
    returned.of = "removeThinkTags" =>
        /\ ~HasSpan(returned.value)
        /\ removeThinkTags(returned.value) = returned.value
        /\ (~HasSpan(content) => returned.value = trim(content))

====
